---------------------------- MODULE Spec2Model ----------------------------
(***************************************************************************)
(* A model of src/raft.c: the integration of one RedisRaft node with the   *)
(* Raft algorithm library.  The model follows ONE node (Self).  Its peers, *)
(* its clients, the disk and the Raft library's timers are the             *)
(* environment: their inputs are drawn from small sets.                    *)
(*                                                                         *)
(* The code of src/raft.c is translated function by function.  A C         *)
(* function that reads and writes the RedisRaftCtx becomes an operator     *)
(* from a state record `s' (one field per variable) to the state record    *)
(* it leaves; the actions at the end assign the variables from that        *)
(* record.  Functions that are called by src/raft.c but defined elsewhere  *)
(* (the Raft library, the RaftLog file functions) are modelled from        *)
(* the contract the specification gives for them.                          *)
(***************************************************************************)
EXTENDS Integers, Sequences, FiniteSets, TLC

(***************************************************************************)
(* Bounds of the model.                                                    *)
(***************************************************************************)
MaxNode == 2        \* node ids are 1..MaxNode
MaxReq == 3         \* requests created
MaxLog == 2         \* entries in the in-memory Raft log
MaxTerm == 1        \* highest Raft term
MaxCrash == 1       \* restarts of the process
MaxProd == 2        \* interpreter threads that submit concurrently
MaxIOFail == 1      \* disk writes that fail
MaxQueue == 1       \* requests waiting in the queue of the node as a whole

Self == 1           \* config->id
NodeIds == 1..MaxNode
NoNode == 0         \* NULL raft_node_t / vote -1
NoReq == 0          \* NULL RaftReq (entry->user_data)

\* return codes
OK == "0"
RAFT_ERR_SHUTDOWN == "RAFT_ERR_SHUTDOWN"
RAFT_ERR_NOT_LEADER == "RAFT_ERR_NOT_LEADER"
ABORT == "abort"    \* a failed assert(): the process is gone, nothing returns

\* raft entry types
RAFT_LOGTYPE_NORMAL == "NORMAL"
RAFT_LOGTYPE_ADD_NONVOTING_NODE == "ADD_NONVOTING_NODE"
RAFT_LOGTYPE_ADD_NODE == "ADD_NODE"
RAFT_LOGTYPE_REMOVE_NODE == "REMOVE_NODE"

\* request types
RR_CFGCHANGE_ADDNODE == "RR_CFGCHANGE_ADDNODE"
RR_CFGCHANGE_REMOVENODE == "RR_CFGCHANGE_REMOVENODE"
RR_APPENDENTRIES == "RR_APPENDENTRIES"
RR_REQUESTVOTE == "RR_REQUESTVOTE"
RR_REDISCOMMAND == "RR_REDISCOMMAND"
RR_INFO == "RR_INFO"
ReqTypes == {RR_CFGCHANGE_ADDNODE, RR_CFGCHANGE_REMOVENODE, RR_APPENDENTRIES,
             RR_REQUESTVOTE, RR_REDISCOMMAND, RR_INFO}

VARIABLES
  \* --- the Raft library's server (raft_server_private_t)
  state,             \* "follower" | "candidate" | "leader"
  current_leader,    \* node id of the current leader, NoNode when NULL
  current_term,
  voted_for,
  log,               \* in-memory log: sequence of entries
  commit_idx,
  last_applied_idx,
  nodes,             \* node registry: id -> [st, udata]
  cbs_set,           \* raft_set_callbacks has been called
  \* --- RedisRaftCtx
  header,            \* rr->log->header (in memory): [term, vote, commit_idx]
  rqueue,            \* rr->rqueue: sequence of request ids
  reqs,              \* the RaftReq objects of this incarnation
  running,           \* rr->running
  \* --- the log file on disk
  disk_header,
  disk_log,
  \* --- the interpreter of this incarnation
  executed,          \* log indices handed to RedisModule_Call, in order
  \* --- the process
  up,                \* FALSE once an assert() has aborted the process
  ncrash,            \* restarts so far
  nfail,             \* disk writes that have failed so far
  \* --- observations (history)
  cbs,               \* the callbacks the last step invoked, with what they returned
  shutdown_seen,     \* a callback has returned RAFT_ERR_SHUTDOWN in this incarnation
  inserted,          \* request ids in the order of STAILQ_INSERT_TAIL
  dispatched,        \* request ids in the order of dispatch to a handler
  \* --- the threads around the request queue (specification SpecQueue)
  mutex,             \* rr->rqueue_mutex: the set of threads holding it
  ppc,               \* per producer thread: its position in RaftReqSubmit
  preq,              \* per producer thread: the request it is submitting
  wpc,               \* the consensus thread's position (RedisRaftCtxhread)
  wreq,              \* the request raft_req_fetch returned
  sig,               \* a uv_async_send is pending on rr->rqueue_sig
  \* --- one command on its way through the entry encoding
  cmd,               \* [pc, argv, len, buf, out]: source->argv, target->len,
                     \* target->buf, the argv RaftRedisCommandDeserialize
                     \* builds from the buffer
  \* --- the connections to the peers
  link               \* [state, connects, sent, last]: node->state per peer,
                     \* the NodeConnect calls per peer, the commands queued
                     \* on the connections, the last send callback

srvvars == <<state, current_leader, current_term, voted_for, log, commit_idx,
             last_applied_idx, nodes, cbs_set, header, rqueue, reqs,
             disk_header, disk_log, executed, up, cbs, shutdown_seen,
             inserted, dispatched>>
thrvars == <<mutex, ppc, preq, wpc, wreq, sig, running>>
auxvars == <<cmd, link>>
vars == <<srvvars, thrvars, ncrash, nfail, auxvars>>

Worker == 0         \* the consensus thread, as a holder of the mutex
Producers == 1..MaxProd

\* The one element of a singleton set: Only({F(x) : x \in {e}}) is F(e), with
\* e evaluated once.
Only(S) == CHOOSE v \in S : TRUE

Max(a, b) == IF a >= b THEN a ELSE b
Min(a, b) == IF a <= b THEN a ELSE b

(***************************************************************************)
(* The state record the operators below transform.                         *)
(***************************************************************************)
Cur ==
  [state |-> state, current_leader |-> current_leader,
   current_term |-> current_term, voted_for |-> voted_for, log |-> log,
   commit_idx |-> commit_idx, last_applied_idx |-> last_applied_idx,
   nodes |-> nodes, cbs_set |-> cbs_set, header |-> header,
   rqueue |-> rqueue, reqs |-> reqs, disk_header |-> disk_header,
   disk_log |-> disk_log, executed |-> executed, up |-> up, cbs |-> <<>>,
   shutdown_seen |-> shutdown_seen, inserted |-> inserted,
   dispatched |-> dispatched]

Ret(s, e) == [s |-> s, e |-> e]

\* A failed assert(): abort() ends the process.
Abort(s) == Ret([s EXCEPT !.up = FALSE], ABORT)

\* What the library sees of a callback it invoked: its name, its argument
\* (the vote, the term, the type of the entry), what it returned, whether
\* the disk write under it failed, and whether it changed the node registry.
Note(before, r, cb, arg, iofail) ==
  IF r.e = ABORT THEN r
  ELSE Ret([r.s EXCEPT
              !.cbs = IF cb \in {"persist_vote", "persist_term", "log_offer"}
                      THEN Append(@, [cb |-> cb, arg |-> arg, ret |-> r.e,
                                      iofail |-> iofail,
                                      same_nodes |-> (r.s.nodes = before.nodes)])
                      ELSE @,
              !.shutdown_seen = @ \/ (r.e = RAFT_ERR_SHUTDOWN)],
           r.e)


(***************************************************************************)
(* Entries and requests.                                                   *)
(***************************************************************************)
\* raft_entry_t: its type, the node id of a cfg-change payload
\* (RaftCfgChange.id, NoNode for a command) and user_data.
Entry(type, node, req) == [type |-> type, node |-> node, req |-> req]

raft_entry_is_cfg_change(entry) ==
  entry.type \in {RAFT_LOGTYPE_ADD_NODE, RAFT_LOGTYPE_ADD_NONVOTING_NODE,
                  RAFT_LOGTYPE_REMOVE_NODE}

\* The address a cfg-change payload carries for node id (RaftCfgChange.addr).
AddrOf(id) == <<"host", id, "port", id>>

\* RaftReqInit: a calloc'ed request with a blocked client and its context.
\* pending is RR_PENDING_COMMIT.  reply, unblocked and freed are what the
\* client and the allocator see of the request.  ldr is an observation: <<l>>
\* once a client command has been dispatched, l being the leader the Raft
\* library reported at that moment.
RaftReqInit(type) ==
  [type |-> type, pending |-> FALSE, ctx |-> TRUE, reply |-> <<>>,
   unblocked |-> 0, freed |-> 0, ldr |-> <<>>]

NoReqObj == [type |-> "unused", pending |-> FALSE, ctx |-> FALSE,
             reply |-> <<>>, unblocked |-> 0, freed |-> 0, ldr |-> <<>>]

\* RedisModule_ReplyWith...: one reply emitted on the request's context.
\* A reply is a tuple: its text, then its arguments.
Reply(s, r, what) == [s EXCEPT !.reqs[r].reply = Append(@, what)]

\* RedisModule_UnblockClient
Unblock(s, r) == [s EXCEPT !.reqs[r].unblocked = @ + 1]

\* The common tail of the synchronous handlers:
\* FreeThreadSafeContext, UnblockClient, req->ctx = NULL.
ReleaseClient(s, r) == [Unblock(s, r) EXCEPT !.reqs[r].ctx = FALSE]

(***************************************************************************)
(* The log file (RaftLogCreate, RaftLogOpen, RaftLogAppend, RaftLogUpdate, *)
(* RaftLogLoadEntries are not in src/raft.c).  A write either reaches the  *)
(* disk or fails and leaves the file as it was; io says which.             *)
(***************************************************************************)
FreshHeader == [term |-> 0, vote |-> NoNode, commit_idx |-> 0]

RaftLogAppend(s, entry, io) ==
  IF io
  THEN [ok |-> TRUE,
        s |-> [s EXCEPT !.disk_log = Append(@, [entry EXCEPT !.req = NoReq])]]
  ELSE [ok |-> FALSE, s |-> s]

RaftLogUpdate(s, io) ==
  IF io
  THEN [ok |-> TRUE, s |-> [s EXCEPT !.disk_header = s.header]]
  ELSE [ok |-> FALSE, s |-> s]

RaftLogCreate(s) ==
  [s EXCEPT !.header = FreshHeader, !.disk_header = FreshHeader,
            !.disk_log = <<>>]

RaftLogOpen(s) == [s EXCEPT !.header = s.disk_header]

(***************************************************************************)
(* The Raft library's node registry.                                       *)
(***************************************************************************)
NoNodeObj == [st |-> "none", udata |-> FALSE]

raft_get_node(s, id) == id \in NodeIds /\ s.nodes[id].st # "none"

raft_node_is_voting(s, id) == id \in NodeIds /\ s.nodes[id].st = "voting"

raft_get_num_nodes(s) == Cardinality({n \in NodeIds : s.nodes[n].st # "none"})

raft_get_num_voting_nodes(s) ==
  Cardinality({n \in NodeIds : s.nodes[n].st = "voting"})

raft_remove_node(s, id) == [s EXCEPT !.nodes[id] = NoNodeObj]

\* raft_add_node: a node that exists is promoted to voting (its udata
\* stays), or refused (node NoNode) when it is voting already.
raft_add_node(s, udata, id) ==
  IF raft_get_node(s, id)
  THEN IF s.nodes[id].st = "nonvoting"
       THEN [s |-> [s EXCEPT !.nodes[id].st = "voting"], node |-> id]
       ELSE [s |-> s, node |-> NoNode]
  ELSE [s |-> [s EXCEPT !.nodes[id] = [st |-> "voting", udata |-> udata]],
        node |-> id]

raft_add_non_voting_node(s, udata, id) ==
  IF raft_get_node(s, id)
  THEN [s |-> s, node |-> NoNode]
  ELSE [s |-> [s EXCEPT !.nodes[id] = [st |-> "nonvoting", udata |-> udata]],
        node |-> id]

(***************************************************************************)
(* Execution of a log entry on the local interpreter.                      *)
(***************************************************************************)
\* idx names the entry in the interpreter's call record; what RedisModule_Call
\* answers (a reply, or NULL turned into an error) is the reply "RESULT".
executeLogEntry(s, entry, idx) ==
  LET req == entry.req
      s1 == [s EXCEPT !.executed = Append(@, idx)]
  IN IF req # NoReq
     THEN Unblock(Reply(s1, req, <<"RESULT">>), req)
     ELSE s1

(***************************************************************************)
(* The callbacks src/raft.c gives the Raft library.                        *)
(***************************************************************************)
raftPersistVote(s, vote, io) ==
  LET u == RaftLogUpdate([s EXCEPT !.header.vote = vote], io)
  IN IF ~u.ok THEN Ret(u.s, RAFT_ERR_SHUTDOWN) ELSE Ret(u.s, OK)

\* The vote argument is not used by the code.
raftPersistTerm(s, term, vote, io) ==
  LET u == RaftLogUpdate([s EXCEPT !.header.term = term], io)
  IN IF ~u.ok THEN Ret(u.s, RAFT_ERR_SHUTDOWN) ELSE Ret(u.s, OK)

\* raftLogOffer changing the node registry before it appends to the file.
raftLogOffer_RegistryFirst(s, entry, entry_idx, io) ==
  LET m == IF entry.type = RAFT_LOGTYPE_REMOVE_NODE
              /\ raft_get_node(s, entry.node)
           THEN raft_remove_node(s, entry.node)
           ELSE IF entry.type = RAFT_LOGTYPE_ADD_NODE
           THEN raft_add_node(s, TRUE, entry.node).s
           ELSE IF entry.type = RAFT_LOGTYPE_ADD_NONVOTING_NODE
           THEN raft_add_non_voting_node(s, TRUE, entry.node).s
           ELSE s
       a == RaftLogAppend(m, entry, io)
  IN IF ~a.ok THEN Ret(a.s, RAFT_ERR_SHUTDOWN) ELSE Ret(a.s, OK)

raftLogOffer(s, entry, entry_idx, io) ==
  LET a == RaftLogAppend(s, entry, io)
  IN IF ~a.ok THEN Ret(a.s, RAFT_ERR_SHUTDOWN)
     ELSE IF ~raft_entry_is_cfg_change(entry) THEN Ret(a.s, OK)
     ELSE IF entry.type = RAFT_LOGTYPE_REMOVE_NODE
     THEN IF ~raft_get_node(a.s, entry.node)
          THEN Abort(a.s)                       \* assert(raft_node != NULL)
          ELSE Ret(raft_remove_node(a.s, entry.node), OK)
     ELSE IF entry.type = RAFT_LOGTYPE_ADD_NODE
     THEN LET r == raft_add_node(a.s, TRUE, entry.node)
          IN IF r.node = NoNode
             THEN Abort(r.s)      \* assert(raft_node_is_voting(NULL))
             ELSE Ret(r.s, OK)
     ELSE Ret(raft_add_non_voting_node(a.s, TRUE, entry.node).s, OK)

\* raftApplyLog without its comparison of the removed id with the local id.
raftApplyLog_AnyRemoval(s, entry, entry_idx) ==
  LET s1 == IF entry_idx > s.header.commit_idx
            THEN [s EXCEPT !.header.commit_idx = entry_idx]
            ELSE s
  IN IF entry.type = RAFT_LOGTYPE_REMOVE_NODE
     THEN Ret(s1, RAFT_ERR_SHUTDOWN)
     ELSE IF entry.type = RAFT_LOGTYPE_NORMAL
     THEN Ret(executeLogEntry(s1, entry, entry_idx), OK)
     ELSE Ret(s1, OK)

raftApplyLog(s, entry, entry_idx) ==
  LET s1 == IF entry_idx > s.header.commit_idx
            THEN [s EXCEPT !.header.commit_idx = entry_idx]
            ELSE s
  IN IF entry.type = RAFT_LOGTYPE_REMOVE_NODE
     THEN IF entry.node = Self THEN Ret(s1, RAFT_ERR_SHUTDOWN) ELSE Ret(s1, OK)
     ELSE IF entry.type = RAFT_LOGTYPE_NORMAL
     THEN Ret(executeLogEntry(s1, entry, entry_idx), OK)
     ELSE Ret(s1, OK)


(***************************************************************************)
(* The Raft library, as far as src/raft.c drives it.  The library calls a  *)
(* callback only when raft_set_callbacks has registered it.                *)
(***************************************************************************)
raft_set_commit_idx(s, idx) == [s EXCEPT !.commit_idx = idx]

raft_become_leader(s) ==
  [s EXCEPT !.state = "leader", !.current_leader = Self]

raft_become_follower(s) == [s EXCEPT !.state = "follower"]

\* A higher term is persisted (persist_term(term, -1)) before it is adopted,
\* and adopting it forgets the vote.
raft_set_current_term(s, term, io) ==
  IF s.current_term < term
  THEN Only({IF r.e # OK THEN r
             ELSE Ret([r.s EXCEPT !.current_term = term,
                                  !.voted_for = NoNode], OK) :
             r \in {IF s.cbs_set
                    THEN Note(s, raftPersistTerm(s, term, NoNode, io),
                              "persist_term", term, ~io)
                    ELSE Ret(s, OK)}})
  ELSE Ret(s, OK)

raft_vote_for_nodeid(s, id, io) ==
  Only({IF r.e # OK THEN r ELSE Ret([r.s EXCEPT !.voted_for = id], OK) :
        r \in {IF s.cbs_set
               THEN Note(s, raftPersistVote(s, id, io), "persist_vote", id,
                         ~io)
               ELSE Ret(s, OK)}})

\* The entry is offered to the log callback first and enters the in-memory
\* log only when the callback accepts it.
raft_append_entry(s, ety, io) ==
  Only({IF r.e # OK THEN r ELSE Ret([r.s EXCEPT !.log = Append(@, ety)], OK) :
        r \in {IF s.cbs_set
               THEN Note(s, raftLogOffer(s, ety, Len(s.log) + 1, io),
                         "log_offer", ety.type, ~io)
               ELSE Ret(s, OK)}})

\* Only the leader accepts an entry; a cluster of one voting node commits
\* it at once.
raft_recv_entry(s, ety, io) ==
  IF s.state # "leader" THEN Ret(s, RAFT_ERR_NOT_LEADER)
  ELSE Only({IF r.e # OK THEN r
             ELSE IF raft_get_num_voting_nodes(r.s) = 1
             THEN Ret(raft_set_commit_idx(r.s, Len(r.s.log)), OK)
             ELSE r :
             r \in {raft_append_entry(s, ety, io)}})

\* Applies the next entry, never one past commit_idx.
raft_apply_entry(s) ==
  IF s.last_applied_idx >= s.commit_idx \/ s.last_applied_idx + 1 > Len(s.log)
  THEN Ret(s, "-1")
  ELSE LET idx == s.last_applied_idx + 1
           s1 == [s EXCEPT !.last_applied_idx = idx]
       IN IF s.cbs_set
          THEN Only({IF r.e = RAFT_ERR_SHUTDOWN THEN r ELSE Ret(r.s, OK) :
                     r \in {Note(s1, raftApplyLog(s1, s1.log[idx], idx),
                                 "applylog", idx, FALSE)}})
          ELSE Ret(s1, OK)

RECURSIVE raft_apply_all(_)
raft_apply_all(s) ==
  IF s.last_applied_idx < s.commit_idx
  THEN Only({IF r.e # OK THEN r ELSE raft_apply_all(r.s) :
             r \in {raft_apply_entry(s)}})
  ELSE Ret(s, OK)

\* An election: the new term is persisted, then the vote for self (whose
\* result the library does not look at).
raft_become_candidate(s, io1, io2) ==
  Only({IF r.e # OK THEN r
        ELSE Ret([raft_vote_for_nodeid(r.s, Self, io2).s
                    EXCEPT !.current_leader = NoNode, !.state = "candidate"],
                 OK) :
        r \in {raft_set_current_term(s, s.current_term + 1, io1)}})

\* timeout: the election timer has run out.
raft_periodic(s, timeout, io1, io2) ==
  LET s1 == IF raft_get_num_nodes(s) = 1 /\ raft_node_is_voting(s, Self)
               /\ s.state # "leader"
            THEN raft_become_leader(s) ELSE s
  IN Only({IF r1.e # OK THEN r1
           ELSE IF r1.s.last_applied_idx < r1.s.commit_idx
           THEN raft_apply_entry(r1.s)
           ELSE r1 :
           r1 \in {IF s1.state # "leader" /\ timeout
                      /\ raft_get_num_voting_nodes(s1) > 1
                      /\ raft_node_is_voting(s1, Self)
                   THEN raft_become_candidate(s1, io1, io2)
                   ELSE Ret(s1, OK)}})

\* msg: [term, candidate, uptodate].  A higher term is adopted first; a
\* voting node grants (and persists) its vote to an up-to-date candidate of
\* the current term when it has not voted in it.
raft_recv_requestvote(s, msg, io1, io2) ==
  Only({IF r.e # OK THEN r
        ELSE IF raft_node_is_voting(r.s, Self)
                /\ msg.term = r.s.current_term /\ msg.uptodate
                /\ r.s.voted_for = NoNode
        THEN Only({IF v.e # OK THEN v
                   ELSE Ret([v.s EXCEPT !.current_leader = NoNode], OK) :
                   v \in {raft_vote_for_nodeid(r.s, msg.candidate, io2)}})
        ELSE r :
        r \in {IF s.current_term < msg.term
               THEN Only({IF t.e # OK THEN t
                          ELSE Ret([raft_become_follower(t.s)
                                      EXCEPT !.current_leader = NoNode], OK) :
                          t \in {raft_set_current_term(s, msg.term, io1)}})
               ELSE Ret(s, OK)}})

\* msg: [term, prev, ents, leader_commit], sent by node src.  A message of
\* an older term is refused.  A higher term is adopted and the node steps
\* down; a candidate steps down in its own term too.  The sender becomes the
\* current leader (none when it is not registered).  Entries after prev that
\* are not committed give way to the leader's (log_pop is a no-op callback);
\* the new ones are appended through raft_append_entry.
RECURSIVE AppendAll(_, _, _)
AppendAll(s, ents, io) ==
  IF ents = <<>> THEN Ret(s, OK)
  ELSE Only({IF r.e # OK THEN r ELSE AppendAll(r.s, Tail(ents), io) :
             r \in {raft_append_entry(s, Head(ents), io)}})

raft_recv_appendentries(s, src, msg, io1, io2) ==
  IF msg.term < s.current_term THEN Ret(s, OK)
  ELSE
    Only({IF t.e # OK THEN t
          ELSE
            Only({IF msg.prev > Len(s1.log) THEN Ret(s1, OK)
                  ELSE
                    Only({IF a.e # OK THEN a
                          ELSE Ret(IF a.s.commit_idx < msg.leader_commit
                                   THEN raft_set_commit_idx(a.s,
                                          Min(msg.leader_commit, Len(a.s.log)))
                                   ELSE a.s, OK) :
                          a \in {AppendAll(
                                   [s1 EXCEPT !.log =
                                      SubSeq(@, 1,
                                        IF msg.ents # <<>>
                                           /\ msg.prev >= s1.commit_idx
                                        THEN msg.prev ELSE Len(s1.log))],
                                   msg.ents, io2)}}) :
                  s1 \in {[(IF msg.term > s.current_term
                                \/ s.state = "candidate"
                             THEN raft_become_follower(t.s) ELSE t.s) EXCEPT
                             !.current_leader =
                                IF raft_get_node(t.s, src) THEN src
                                ELSE NoNode]}}) :
          t \in {raft_set_current_term(s, msg.term, io1)}})

\* resp: [term, granted, majority].
raft_recv_requestvote_response(s, node, resp, io) ==
  IF s.state # "candidate" THEN Ret(s, OK)
  ELSE IF resp.term > s.current_term
  THEN Only({IF t.e # OK THEN t
             ELSE Ret([raft_become_follower(t.s)
                         EXCEPT !.current_leader = NoNode], OK) :
             t \in {raft_set_current_term(s, resp.term, io)}})
  ELSE IF resp.term = s.current_term /\ resp.granted /\ resp.majority
  THEN Ret(raft_become_leader(s), OK)
  ELSE Ret(s, OK)


\* node_has_sufficient_logs: promote the caught-up peer with an ADD_NODE
\* entry.
raftNodeHasSufficientLogs(s, node, io) ==
  Only({IF r.e = ABORT THEN r
        ELSE IF r.e # OK THEN Abort(r.s)            \* assert(e == 0)
        ELSE Ret(r.s, OK) :
        r \in {raft_recv_entry(s, Entry(RAFT_LOGTYPE_ADD_NODE, node, NoReq),
                               io)}})

\* resp: [term, success, adv, suff].  adv is the index a majority now
\* holds; suff says the (non-voting) peer has caught up.
raft_recv_appendentries_response(s, node, resp, io1, io2) ==
  IF s.state # "leader" THEN Ret(s, RAFT_ERR_NOT_LEADER)
  ELSE IF resp.term > s.current_term
  THEN Only({IF t.e # OK THEN t
             ELSE Ret([raft_become_follower(t.s)
                         EXCEPT !.current_leader = NoNode], OK) :
             t \in {raft_set_current_term(s, resp.term, io1)}})
  ELSE IF ~resp.success THEN Ret(s, OK)
  ELSE
    Only({IF r.e # OK THEN r
          ELSE IF raft_node_is_voting(r.s, node) /\ resp.adv > r.s.commit_idx
                  /\ resp.adv <= Len(r.s.log)
          THEN Ret(raft_set_commit_idx(r.s, resp.adv), OK)
          ELSE r :
          r \in {IF resp.suff /\ s.nodes[node].st = "nonvoting"
                 THEN Note(s, raftNodeHasSufficientLogs(s, node, io2),
                           "node_has_sufficient_logs", node, FALSE)
                 ELSE Ret(s, OK)}})

(***************************************************************************)
(* Handlers of the replies of peers (the async commands' callbacks).       *)
(* reply is the shape of what arrived: "null" (connection dropped),        *)
(* "error", "badshape" or "ok".                                            *)
(***************************************************************************)
requestvote_response_handler(s, node, reply, resp, io) ==
  IF reply = "null" THEN Abort(s).s               \* assert(reply != NULL)
  ELSE IF reply = "error" THEN s
  ELSE IF reply = "badshape" THEN s
  ELSE IF ~raft_get_node(s, node) THEN Abort(s).s \* assert(raft_node != NULL)
  ELSE raft_recv_requestvote_response(s, node, resp, io).s

appendentries_response_handler(s, node, reply, resp, io1, io2) ==
  IF reply \in {"null", "error"} THEN s
  ELSE IF reply = "badshape" THEN s
  ELSE IF ~raft_get_node(s, node) THEN Abort(s).s \* assert(raft_node != NULL)
  ELSE Only({IF r.e = ABORT THEN r.s ELSE raft_apply_all(r.s).s :
             r \in {raft_recv_appendentries_response(s, node, resp, io1,
                                                     io2)}})

(***************************************************************************)
(* The periodic timer.                                                     *)
(***************************************************************************)
callRaftPeriodic(s, timeout, io1, io2) ==
  Only({IF r.e = ABORT THEN r.s
        ELSE IF r.e # OK THEN Abort(r.s).s           \* assert(ret == 0)
        ELSE raft_apply_all(r.s).s :
        r \in {raft_periodic(s, timeout, io1, io2)}})

(***************************************************************************)
(* The request handlers.  r is the request; the payload of the request     *)
(* (msg, id) is read when the handler runs.                                *)
(***************************************************************************)
handleRequestVote(s, r, msg, io1, io2) ==
  Only({IF v.e # OK
        THEN ReleaseClient(Reply(v.s, r, <<"operation failed">>), r)
        ELSE ReleaseClient(Reply(v.s, r, <<"VOTE">>), r) :
        v \in {raft_recv_requestvote(s, msg, io1, io2)}})

handleAppendEntries(s, r, src, msg, io1, io2) ==
  Only({IF v.e = ABORT THEN v.s
        ELSE IF v.e # OK
        THEN ReleaseClient(Reply(v.s, r, <<"operation failed">>), r)
        ELSE ReleaseClient(Reply(v.s, r, <<"APPENDENTRIES">>), r) :
        v \in {raft_recv_appendentries(s, src, msg, io1, io2)}})

handleCfgChange(s, r, id, io) ==
  Only({IF v.e = ABORT THEN v.s
        ELSE IF v.e # OK
        THEN ReleaseClient(Reply(v.s, r, <<"ERROR">>), r)
        ELSE ReleaseClient(Reply(v.s, r, <<"OK">>), r) :
        v \in {raft_recv_entry(s,
                 Entry(IF s.reqs[r].type = RR_CFGCHANGE_ADDNODE
                       THEN RAFT_LOGTYPE_ADD_NONVOTING_NODE
                       ELSE RAFT_LOGTYPE_REMOVE_NODE, id, NoReq), io)}})

\* handleRedisCommand without its check of a missing leader: the command
\* goes on to raft_recv_entry.
handleRedisCommand_NoLeaderCheck(s, r, io) ==
  IF s.current_leader \notin {NoNode, Self}
  THEN ReleaseClient(
         Reply(s, r, <<"LEADERIS", AddrOf(s.current_leader)>>), r)
  ELSE Only({IF v.e = ABORT THEN v.s
             ELSE IF v.e # OK
             THEN ReleaseClient(Reply(v.s, r, <<"ERROR">>), r)
             ELSE [v.s EXCEPT !.reqs[r].pending = TRUE] :
             v \in {raft_recv_entry(s, Entry(RAFT_LOGTYPE_NORMAL, NoNode, r),
                                    io)}})

\* handleRedisCommand answering the client as soon as the entry is accepted.
handleRedisCommand_ReplyAtSubmit(s, r, io) ==
  IF s.current_leader = NoNode
  THEN ReleaseClient(Reply(s, r, <<"-NOLEADER">>), r)
  ELSE IF s.current_leader # Self
  THEN ReleaseClient(
         Reply(s, r, <<"LEADERIS", AddrOf(s.current_leader)>>), r)
  ELSE Only({IF v.e = ABORT THEN v.s
             ELSE IF v.e # OK
             THEN ReleaseClient(Reply(v.s, r, <<"ERROR">>), r)
             ELSE [Unblock(Reply(v.s, r, <<"RESULT">>), r)
                     EXCEPT !.reqs[r].pending = TRUE] :
             v \in {raft_recv_entry(s, Entry(RAFT_LOGTYPE_NORMAL, NoNode, r),
                                    io)}})

\* handleRedisCommand without the goto exit of its rejection branch: the
\* rejected request is marked RR_PENDING_COMMIT like an accepted one.
handleRedisCommand_RejectedPending(s, r, io) ==
  IF s.current_leader = NoNode
  THEN ReleaseClient(Reply(s, r, <<"-NOLEADER">>), r)
  ELSE IF s.current_leader # Self
  THEN ReleaseClient(
         Reply(s, r, <<"LEADERIS", AddrOf(s.current_leader)>>), r)
  ELSE Only({IF v.e = ABORT THEN v.s
             ELSE IF v.e # OK
             THEN [Reply(v.s, r, <<"ERROR">>) EXCEPT !.reqs[r].pending = TRUE]
             ELSE [v.s EXCEPT !.reqs[r].pending = TRUE] :
             v \in {raft_recv_entry(s, Entry(RAFT_LOGTYPE_NORMAL, NoNode, r),
                                    io)}})

\* handleRedisCommand without the return of its accepting path: the accepted
\* request falls through to the exit label and its client is unblocked.
handleRedisCommand_FallThrough(s, r, io) ==
  IF s.current_leader = NoNode
  THEN ReleaseClient(Reply(s, r, <<"-NOLEADER">>), r)
  ELSE IF s.current_leader # Self
  THEN ReleaseClient(
         Reply(s, r, <<"LEADERIS", AddrOf(s.current_leader)>>), r)
  ELSE Only({IF v.e = ABORT THEN v.s
             ELSE IF v.e # OK
             THEN ReleaseClient(Reply(v.s, r, <<"ERROR">>), r)
             ELSE Unblock([v.s EXCEPT !.reqs[r].pending = TRUE], r) :
             v \in {raft_recv_entry(s, Entry(RAFT_LOGTYPE_NORMAL, NoNode, r),
                                    io)}})

handleRedisCommand(s, r, io) ==
  IF s.current_leader = NoNode
  THEN ReleaseClient(Reply(s, r, <<"-NOLEADER">>), r)
  ELSE IF s.current_leader # Self
  THEN IF ~s.nodes[s.current_leader].udata
       THEN Abort(s).s                 \* l->addr through a NULL udata
       ELSE ReleaseClient(
              Reply(s, r, <<"LEADERIS", AddrOf(s.current_leader)>>), r)
  ELSE Only({IF v.e = ABORT THEN v.s
             ELSE IF v.e # OK
             THEN ReleaseClient(Reply(v.s, r, <<"ERROR">>), r)
             ELSE [v.s EXCEPT !.reqs[r].pending = TRUE] :
             v \in {raft_recv_entry(s, Entry(RAFT_LOGTYPE_NORMAL, NoNode, r),
                                    io)}})

handleInfo(s, r) == ReleaseClient(Reply(s, r, <<"INFO">>), r)

(***************************************************************************)
(* The request queue.                                                      *)
(***************************************************************************)
RaftReqFree(s, r) == [s EXCEPT !.reqs[r].freed = @ + 1]

\* STAILQ_INSERT_TAIL under the mutex.
QueueInsert(s, r) ==
  [s EXCEPT !.rqueue = Append(@, r), !.inserted = Append(@, r)]

\* raft_req_fetch taking the request inserted last.
raft_req_fetch_Last(s) ==
  IF s.rqueue # <<>>
  THEN [s |-> [s EXCEPT !.rqueue = SubSeq(@, 1, Len(@) - 1)],
        r |-> s.rqueue[Len(s.rqueue)]]
  ELSE [s |-> s, r |-> NoReq]

\* raft_req_fetch: the head of the queue, or NoReq when it is empty.
raft_req_fetch(s) ==
  IF s.rqueue # <<>>
  THEN [s |-> [s EXCEPT !.rqueue = Tail(@)], r |-> Head(s.rqueue)]
  ELSE [s |-> s, r |-> NoReq]

\* g_RaftReqHandlers[req->type](rr, req).  in holds what the request carries.
Dispatch(s, r, in) ==
  LET type == s.reqs[r].type
  IN IF type \in {RR_CFGCHANGE_ADDNODE, RR_CFGCHANGE_REMOVENODE}
     THEN handleCfgChange(s, r, in.id, in.io1)
     ELSE IF type = RR_APPENDENTRIES
     THEN handleAppendEntries(s, r, in.id, in.ae, in.io1, in.io2)
     ELSE IF type = RR_REQUESTVOTE
     THEN handleRequestVote(s, r, in.rv, in.io1, in.io2)
     ELSE IF type = RR_REDISCOMMAND
     THEN handleRedisCommand(s, r, in.io1)
     ELSE handleInfo(s, r)

\* One turn of the loop of RaftReqHandleQueue on a fetched request: the
\* handler, then RaftReqFree unless RR_PENDING_COMMIT is set.  The turn
\* first notes the order of dispatch and the leader the library reports.
HandleOne(s, r, in) ==
  Only({IF ~s2.up THEN s2
        ELSE IF ~s2.reqs[r].pending THEN RaftReqFree(s2, r)
        ELSE s2 :
        s2 \in {Dispatch([s EXCEPT
                            !.dispatched = Append(@, r),
                            !.reqs[r].ldr =
                               IF s.reqs[r].type = RR_REDISCOMMAND
                               THEN <<s.current_leader>> ELSE <<>>], r, in)}})


(***************************************************************************)
(* Bootstrap.                                                              *)
(***************************************************************************)
\* memset, STAILQ_INIT and raft_new: an empty context over the disk d.
raft_new(d) ==
  [state |-> "follower", current_leader |-> NoNode, current_term |-> 0,
   voted_for |-> NoNode, log |-> <<>>, commit_idx |-> 0,
   last_applied_idx |-> 0, nodes |-> [n \in NodeIds |-> NoNodeObj],
   cbs_set |-> FALSE, header |-> FreshHeader, rqueue |-> <<>>,
   reqs |-> [r \in 1..MaxReq |-> NoReqObj], disk_header |-> d.disk_header,
   disk_log |-> d.disk_log, executed |-> <<>>, up |-> TRUE, cbs |-> <<>>,
   shutdown_seen |-> FALSE, inserted |-> <<>>, dispatched |-> <<>>]

\* RaftLogLoadEntries(rr, rr->log, raft_append_entry, rr->raft)
RECURSIVE RaftLogLoadEntries(_, _)
RaftLogLoadEntries(s, ents) ==
  IF ents = <<>> THEN s
  ELSE RaftLogLoadEntries(raft_append_entry(s, Head(ents), TRUE).s, Tail(ents))

raft_set_callbacks(s) == [s EXCEPT !.cbs_set = TRUE]

\* The recover path after RaftLogOpen: the entries are replayed, the commit
\* index is set from the header, all committed entries are applied, then
\* the vote and the term are restored.
Recover(o) ==
  Only({Only({Only({raft_set_current_term(v, v.header.term, TRUE).s :
                    v \in {raft_vote_for_nodeid(a, a.header.vote, TRUE).s}}) :
              a \in {raft_apply_all(
                       raft_set_commit_idx(l, l.header.commit_idx)).s}}) :
        l \in {RaftLogLoadEntries(o, o.disk_log)}})

\* config: "init", "join" or "recover" (neither init nor join).
RedisRaftInit(d, config) ==
  LET s0 == raft_new(d)
      s1 == IF config = "init"
            THEN raft_add_node(s0, FALSE, Self).s
            ELSE raft_add_non_voting_node(s0, FALSE, Self).s
  IN IF config \in {"init", "join"}
     THEN raft_set_callbacks(
            RaftLogCreate(
              raft_recv_entry(raft_become_leader(s1),
                              Entry(RAFT_LOGTYPE_ADD_NODE, Self, NoReq),
                              TRUE).s))
     ELSE raft_set_callbacks(Recover(RaftLogOpen(s1)))

(***************************************************************************)
(* Inputs of the environment.                                              *)
(***************************************************************************)
\* How many of the flags are FALSE.
Falses(ios) == Cardinality({i \in DOMAIN ios : ~ios[i]})

\* The outcomes the disk writes of one step can have: a write can fail while
\* failures remain in the model's budget.
IOs == IF nfail < MaxIOFail THEN BOOLEAN ELSE {TRUE}
IOPairs == {p \in IOs \X IOs : nfail + Falses(p) <= MaxIOFail}

Peers == NodeIds \ {Self}

\* Entries a remote leader replicates to this node.
RemoteEntries ==
  {Entry(RAFT_LOGTYPE_NORMAL, NoNode, NoReq)} \cup
  {Entry(ty, n, NoReq) :
     ty \in {RAFT_LOGTYPE_ADD_NODE, RAFT_LOGTYPE_ADD_NONVOTING_NODE,
             RAFT_LOGTYPE_REMOVE_NODE}, n \in NodeIds}

Terms == 0..MaxTerm

\* An entry can be added while the model's log and file are below MaxLog.
CanAppend(s) == Len(s.log) < MaxLog /\ Len(s.disk_log) < MaxLog

NoAE == [term |-> 0, prev |-> 0, ents |-> <<>>, leader_commit |-> 0]
NoRV == [term |-> 0, candidate |-> NoNode, uptodate |-> FALSE]

\* The messages a peer that believes itself leader can send.  A message of
\* an old term is refused whatever it holds; a heartbeat holds no entry; a
\* message with an entry follows an index the node has not committed past.
AEMsgs(s) ==
  {[term |-> t, prev |-> 0, ents |-> <<>>, leader_commit |-> 0] :
     t \in {u \in Terms : u < s.current_term}}
  \cup
  {[term |-> t, prev |-> p, ents |-> <<>>, leader_commit |-> c] :
     t \in {u \in Terms : u >= s.current_term},
     p \in {Len(s.log), Len(s.log) + 1}, c \in 0..Len(s.log)}
  \cup
  {[term |-> t, prev |-> p, ents |-> <<x>>, leader_commit |-> c] :
     t \in {u \in Terms : u >= s.current_term},
     p \in {q \in s.commit_idx..Len(s.log) :
              q < MaxLog /\ Len(s.disk_log) < MaxLog},
     x \in RemoteEntries, c \in 0..MaxLog}

\* A candidate has a term of its own: it is past term 0.
RVMsgs ==
  {[term |-> t, candidate |-> c, uptodate |-> u] :
     t \in Terms \ {0}, c \in Peers, u \in BOOLEAN}

\* What a request of the given type can carry when it is handled in s.
Inputs(s, type) ==
  IF type \in {RR_CFGCHANGE_ADDNODE, RR_CFGCHANGE_REMOVENODE}
  THEN {[id |-> n, ae |-> NoAE, rv |-> NoRV, io1 |-> io, io2 |-> TRUE] :
          n \in NodeIds, io \in IOs}
  ELSE IF type = RR_APPENDENTRIES
  THEN {[id |-> n, ae |-> m, rv |-> NoRV, io1 |-> io[1], io2 |-> io[2]] :
          n \in Peers, m \in AEMsgs(s), io \in IOPairs}
  ELSE IF type = RR_REQUESTVOTE
  THEN {[id |-> m.candidate, ae |-> NoAE, rv |-> m, io1 |-> io[1],
          io2 |-> io[2]] : m \in RVMsgs, io \in IOPairs}
  ELSE IF type = RR_REDISCOMMAND
  THEN {[id |-> NoNode, ae |-> NoAE, rv |-> NoRV, io1 |-> io, io2 |-> TRUE] :
          io \in IOs}
  ELSE {[id |-> NoNode, ae |-> NoAE, rv |-> NoRV, io1 |-> TRUE, io2 |-> TRUE]}

\* A handler that appends needs room in the model's log.
Fits(s, type) ==
  type \in {RR_CFGCHANGE_ADDNODE, RR_CFGCHANGE_REMOVENODE, RR_REDISCOMMAND}
    => CanAppend(s)

NumReqs(s) == Cardinality({r \in 1..MaxReq : s.reqs[r].type # "unused"})

(***************************************************************************)
(* The actions.                                                            *)
(***************************************************************************)
\* The disk writes that failed in the step that led to s.
Fails(s) == Cardinality({i \in DOMAIN s.cbs : s.cbs[i].iofail})

\* The requests of a process that is gone: their clients are lost with it.
LostReq == [NoReqObj EXCEPT !.type = "lost"]

Lost(rs) ==
  [r \in 1..MaxReq |-> IF rs[r].type = "unused" THEN NoReqObj ELSE LostReq]

\* Once the process is gone only its file is left (and, for the record, the
\* header it last held in memory).
Dead(s) ==
  [raft_new([disk_header |-> s.disk_header, disk_log |-> s.disk_log])
     EXCEPT !.up = FALSE, !.header = s.header, !.reqs = Lost(s.reqs)]

\* The variables of the context take their values from s.
SetVars(s) ==
  /\ state' = s.state
  /\ current_leader' = s.current_leader
  /\ current_term' = s.current_term
  /\ voted_for' = s.voted_for
  /\ log' = s.log
  /\ commit_idx' = s.commit_idx
  /\ last_applied_idx' = s.last_applied_idx
  /\ nodes' = s.nodes
  /\ cbs_set' = s.cbs_set
  /\ header' = s.header
  /\ rqueue' = s.rqueue
  /\ reqs' = s.reqs
  /\ disk_header' = s.disk_header
  /\ disk_log' = s.disk_log
  /\ executed' = s.executed
  /\ up' = s.up
  /\ cbs' = s.cbs
  /\ shutdown_seen' = s.shutdown_seen
  /\ inserted' = s.inserted
  /\ dispatched' = s.dispatched

\* The context the step leaves.
SetCtx(t) ==
  /\ nfail' = nfail + Fails(t)
  /\ SetVars(IF t.up THEN t ELSE Dead(t))
  /\ UNCHANGED auxvars

\* A step in which the threads around the queue stay where they are.
SetSrv(t) == SetCtx(t) /\ UNCHANGED thrvars

\* A step of the consensus thread under the disk outcomes ios: every write
\* that was to fail has failed, within the model's budget of failures.
Step(s, ios) ==
  /\ Falses(ios) = Fails(s)
  /\ nfail + Fails(s) <= MaxIOFail
  /\ SetSrv(s)

\* No thread is inside RaftReqSubmit or RaftReqHandleQueue; the consensus
\* thread waits in its event loop.
ThreadsIdle ==
  /\ mutex = {}
  /\ ppc = [p \in Producers |-> "idle"]
  /\ preq = [p \in Producers |-> NoReq]
  /\ wpc = "loop"
  /\ wreq = NoReq
  /\ sig = FALSE

\* An interpreter thread creates a request and submits it (RaftReqInit,
\* RaftReqSubmit); the insertion is one step under the mutex.
Submit(type) ==
  /\ up /\ running
  /\ NumReqs(Cur) < MaxReq
  /\ Len(rqueue) < MaxQueue
  /\ LET r == NumReqs(Cur) + 1
     IN SetSrv(QueueInsert([Cur EXCEPT !.reqs[r] = RaftReqInit(type)], r))
  /\ UNCHANGED ncrash

\* The consensus thread takes the next request off the queue and handles it.
HandleQueue ==
  /\ up /\ running
  /\ rqueue # <<>>
  /\ LET f == raft_req_fetch(Cur)
     IN /\ Fits(f.s, f.s.reqs[f.r].type)
        /\ \E in \in Inputs(f.s, f.s.reqs[f.r].type) :
             Step(HandleOne(f.s, f.r, in), <<in.io1, in.io2>>)
  /\ UNCHANGED ncrash

\* The 500 ms timer fires.
Tick ==
  /\ up /\ running
  /\ \E timeout \in BOOLEAN, io \in IOPairs :
       /\ timeout => current_term < MaxTerm
       /\ Step(callRaftPeriodic(Cur, timeout, io[1], io[2]), io)
  /\ UNCHANGED ncrash

\* The shapes of a peer's reply that carry no response.
BadReplies == {"null", "error", "badshape"}

NoAEResp == [term |-> 0, success |-> FALSE, adv |-> 0, suff |-> FALSE]
NoRVResp == [term |-> 0, granted |-> FALSE, majority |-> FALSE]

\* A peer's reply to RAFT.APPENDENTRIES arrives.
AppendEntriesResponse ==
  /\ up /\ running
  /\ \E node \in Peers :
       /\ nodes[node].udata
       /\ \/ \E reply \in BadReplies :
               Step(appendentries_response_handler(Cur, node, reply, NoAEResp,
                                                   TRUE, TRUE), <<>>)
          \/ \E t \in Terms, success \in BOOLEAN, adv \in 0..Len(log),
                suff \in BOOLEAN, io \in IOPairs :
               /\ suff => CanAppend(Cur)
               /\ ~success => (adv = 0 /\ ~suff)
               /\ Step(appendentries_response_handler(Cur, node, "ok",
                           [term |-> t, success |-> success, adv |-> adv,
                            suff |-> suff], io[1], io[2]), io)
  /\ UNCHANGED ncrash

\* A peer's reply to RAFT.REQUESTVOTE arrives.
RequestVoteResponse ==
  /\ up /\ running
  /\ \E node \in Peers :
       /\ nodes[node].udata
       /\ \/ \E reply \in BadReplies :
               Step(requestvote_response_handler(Cur, node, reply, NoRVResp,
                                                 TRUE), <<>>)
          \/ \E t \in Terms, granted \in BOOLEAN, majority \in BOOLEAN,
                io \in IOs :
               /\ majority => granted
               /\ Step(requestvote_response_handler(Cur, node, "ok",
                           [term |-> t, granted |-> granted,
                            majority |-> majority], io), <<io>>)
  /\ UNCHANGED ncrash

\* The process dies (a crash, or the abort of a failed assert) and is
\* started again on its log file through the recover path.
Restart ==
  /\ ncrash < MaxCrash
  /\ ThreadsIdle
  /\ SetSrv([RedisRaftInit([disk_header |-> disk_header,
                            disk_log |-> disk_log], "recover")
               EXCEPT !.reqs = Lost(reqs)])
  /\ ncrash' = ncrash + 1

InitWith(config) ==
  \E s \in {RedisRaftInit([disk_header |-> FreshHeader, disk_log |-> <<>>],
                          config)} :
     /\ state = s.state
     /\ current_leader = s.current_leader
     /\ current_term = s.current_term
     /\ voted_for = s.voted_for
     /\ log = s.log
     /\ commit_idx = s.commit_idx
     /\ last_applied_idx = s.last_applied_idx
     /\ nodes = s.nodes
     /\ cbs_set = s.cbs_set
     /\ header = s.header
     /\ rqueue = s.rqueue
     /\ reqs = s.reqs
     /\ disk_header = s.disk_header
     /\ disk_log = s.disk_log
     /\ executed = s.executed
     /\ up = s.up
     /\ cbs = s.cbs
     /\ shutdown_seen = s.shutdown_seen
     /\ inserted = s.inserted
     /\ dispatched = s.dispatched
     /\ ncrash = 0
     /\ nfail = 0

\* No command is being encoded.
NoCmd == [pc |-> "none", argv |-> <<>>, len |-> 0, buf |-> <<>>, out |-> <<>>]

\* No peer is connected and the library has sent nothing.
NoSend == [cb |-> "none", node |-> NoNode, msg |-> <<>>, connected |-> FALSE,
           enq |-> FALSE, ret |-> OK, connects |-> 0, sent |-> <<>>, n |-> 0]

NoLink == [state |-> [p \in NodeIds \ {Self} |-> {}],
           connects |-> [p \in NodeIds \ {Self} |-> 0],
           sent |-> <<>>, last |-> NoSend]

AuxIdle == cmd = NoCmd /\ link = NoLink

\* The node has been bootstrapped (init or join) and its thread runs.
Init ==
  /\ \E config \in {"init", "join"} : InitWith(config)
  /\ ThreadsIdle
  /\ running = TRUE
  /\ AuxIdle

Next ==
  \/ \E type \in ReqTypes : Submit(type)
  \/ HandleQueue
  \/ Tick
  \/ AppendEntriesResponse
  \/ RequestVoteResponse
  \/ Restart

Spec == Init /\ [][Next]_vars

(***************************************************************************)
(* The threads around the request queue, statement by statement: the       *)
(* interpreter threads inside RaftReqSubmit, the consensus thread inside   *)
(* RedisRaftCtxhread and RaftReqHandleQueue.  The threads submit RR_INFO   *)
(* requests, whose handler leaves the Raft instance alone.                 *)
(***************************************************************************)
\* The steps of the threads leave the disk budget and the restarts alone.
SetQueue(t) == SetCtx(t) /\ UNCHANGED ncrash

\* RaftReqInit, then the call of RaftReqSubmit.
ProducerCreate(p) ==
  /\ ppc[p] = "idle"
  /\ NumReqs(Cur) < MaxReq
  /\ LET r == NumReqs(Cur) + 1
     IN /\ SetQueue([Cur EXCEPT !.reqs[r] = RaftReqInit(RR_INFO)])
        /\ preq' = [preq EXCEPT ![p] = r]
  /\ ppc' = [ppc EXCEPT ![p] = "lock"]
  /\ UNCHANGED <<mutex, wpc, wreq, sig, running>>

\* uv_mutex_lock(&rr->rqueue_mutex)
ProducerLock(p) ==
  /\ ppc[p] = "lock"
  /\ mutex = {}
  /\ mutex' = {p}
  /\ ppc' = [ppc EXCEPT ![p] = "insert"]
  /\ SetQueue(Cur)
  /\ UNCHANGED <<preq, wpc, wreq, sig, running>>

\* STAILQ_INSERT_TAIL(&rr->rqueue, req, entries)
ProducerInsert(p) ==
  /\ ppc[p] = "insert"
  /\ SetQueue(QueueInsert(Cur, preq[p]))
  /\ ppc' = [ppc EXCEPT ![p] = "unlock"]
  /\ UNCHANGED <<mutex, preq, wpc, wreq, sig, running>>

\* uv_mutex_unlock(&rr->rqueue_mutex)
ProducerUnlock(p) ==
  /\ ppc[p] = "unlock"
  /\ mutex' = {}
  /\ ppc' = [ppc EXCEPT ![p] = "signal"]
  /\ SetQueue(Cur)
  /\ UNCHANGED <<preq, wpc, wreq, sig, running>>

\* if (rr->running) uv_async_send(&rr->rqueue_sig)
ProducerSignal(p) ==
  /\ ppc[p] = "signal"
  /\ sig' = (sig \/ running)
  /\ ppc' = [ppc EXCEPT ![p] = "idle"]
  /\ preq' = [preq EXCEPT ![p] = NoReq]
  /\ SetQueue(Cur)
  /\ UNCHANGED <<mutex, wpc, wreq, running>>

\* RedisRaftCtxhread: rr->running = true, then uv_run.
WorkerStart ==
  /\ wpc = "start"
  /\ running' = TRUE
  /\ wpc' = "loop"
  /\ SetQueue(Cur)
  /\ UNCHANGED <<mutex, ppc, preq, wreq, sig>>

\* The event loop runs the async callback, RaftReqHandleQueue.
WorkerWake ==
  /\ wpc = "loop"
  /\ sig
  /\ sig' = FALSE
  /\ wpc' = "lock"
  /\ SetQueue(Cur)
  /\ UNCHANGED <<mutex, ppc, preq, wreq, running>>

\* raft_req_fetch: uv_mutex_lock
WorkerLock ==
  /\ wpc = "lock"
  /\ mutex = {}
  /\ mutex' = {Worker}
  /\ wpc' = "fetch"
  /\ SetQueue(Cur)
  /\ UNCHANGED <<ppc, preq, wreq, sig, running>>

\* raft_req_fetch: STAILQ_FIRST and STAILQ_REMOVE_HEAD, or NULL
WorkerFetch ==
  /\ wpc = "fetch"
  /\ LET f == raft_req_fetch(Cur)
     IN SetQueue(f.s) /\ wreq' = f.r
  /\ wpc' = "unlock"
  /\ UNCHANGED <<mutex, ppc, preq, sig, running>>

\* raft_req_fetch: uv_mutex_unlock and return; the loop of
\* RaftReqHandleQueue ends on NULL.
WorkerUnlock ==
  /\ wpc = "unlock"
  /\ mutex' = {}
  /\ wpc' = IF wreq = NoReq THEN "loop" ELSE "handle"
  /\ SetQueue(Cur)
  /\ UNCHANGED <<ppc, preq, wreq, sig, running>>

\* The body of the loop of RaftReqHandleQueue.
WorkerHandle ==
  /\ wpc = "handle"
  /\ \E in \in Inputs(Cur, reqs[wreq].type) : SetQueue(HandleOne(Cur, wreq, in))
  /\ wreq' = NoReq
  /\ wpc' = "lock"
  /\ UNCHANGED <<mutex, ppc, preq, sig, running>>

\* The node has been initialised; its thread has been created and has not
\* run yet.
InitQueue ==
  /\ InitWith("init")
  /\ mutex = {}
  /\ ppc = [p \in Producers |-> "idle"]
  /\ preq = [p \in Producers |-> NoReq]
  /\ wpc = "start"
  /\ wreq = NoReq
  /\ sig = FALSE
  /\ running = FALSE
  /\ AuxIdle

NextQueue ==
  \/ \E p \in Producers : ProducerCreate(p)
  \/ \E p \in Producers : ProducerLock(p)
  \/ \E p \in Producers : ProducerInsert(p)
  \/ \E p \in Producers : ProducerUnlock(p)
  \/ \E p \in Producers : ProducerSignal(p)
  \/ WorkerStart
  \/ WorkerWake
  \/ WorkerLock
  \/ WorkerFetch
  \/ WorkerUnlock
  \/ WorkerHandle

SpecQueue == InitQueue /\ [][NextQueue]_vars

\* The scheduling of the threads: the consensus thread's event loop keeps
\* running, and a thread inside RaftReqSubmit goes on to its end.  Whether
\* an interpreter thread submits another request is up to the clients.
FairQueue ==
  /\ WF_vars(WorkerStart)
  /\ WF_vars(WorkerWake)
  /\ WF_vars(WorkerLock)
  /\ WF_vars(WorkerFetch)
  /\ WF_vars(WorkerUnlock)
  /\ WF_vars(WorkerHandle)
  /\ \A p \in Producers :
       /\ WF_vars(ProducerLock(p))
       /\ WF_vars(ProducerInsert(p))
       /\ WF_vars(ProducerUnlock(p))
       /\ WF_vars(ProducerSignal(p))

SpecQueueFair == InitQueue /\ [][NextQueue]_vars /\ FairQueue

(***************************************************************************)
(* The callbacks on their own: the Raft library invokes persist_vote,      *)
(* persist_term, log_offer and applylog on the context, in any order and   *)
(* with any argument.  cbs holds the record of the last invocation: what   *)
(* was passed, what came back, and the registry, the header and the        *)
(* interpreter's calls as they were before it, and how many invocations    *)
(* there have been.                                                        *)
(***************************************************************************)
MaxCalls == 2       \* invocations in a row

CbVotes == NodeIds \cup {NoNode}

NumCalls == IF cbs = <<>> THEN 0 ELSE cbs[1].n

\* The record of an invocation of callback cb on the context before.
Call(before, cb, vote, term, entry, idx, iofail) ==
  [cb |-> cb, vote |-> vote, term |-> term, entry |-> entry, idx |-> idx,
   iofail |-> iofail, ret |-> OK, n |-> NumCalls + 1,
   pre |-> [nodes |-> before.nodes, header |-> before.header,
            executed |-> before.executed]]

\* The context an invocation leaves; a failed assert leaves it as it was
\* when the process died.
SetCall(r, call) ==
  /\ nfail' = nfail + (IF call.iofail THEN 1 ELSE 0)
  /\ SetVars([r.s EXCEPT !.cbs = <<[call EXCEPT !.ret = r.e]>>])
  /\ UNCHANGED <<thrvars, ncrash, auxvars>>

CallPersistVote ==
  /\ up /\ NumCalls < MaxCalls
  /\ \E vote \in CbVotes, io \in IOs :
       SetCall(raftPersistVote(Cur, vote, io),
               Call(Cur, "persist_vote", vote, header.term,
                    Entry(RAFT_LOGTYPE_NORMAL, NoNode, NoReq), 0, ~io))

\* raft_set_current_term persists a term higher than the current one and
\* passes -1 for the vote.
CallPersistTerm ==
  /\ up /\ NumCalls < MaxCalls
  /\ \E term \in {u \in Terms : u > header.term}, io \in IOs :
       SetCall(raftPersistTerm(Cur, term, NoNode, io),
               Call(Cur, "persist_term", NoNode, term,
                    Entry(RAFT_LOGTYPE_NORMAL, NoNode, NoReq), 0, ~io))

CallLogOffer ==
  /\ up /\ NumCalls < MaxCalls
  /\ Len(disk_log) < MaxLog
  /\ \E entry \in RemoteEntries, io \in IOs :
       SetCall(raftLogOffer(Cur, entry, Len(disk_log) + 1, io),
               Call(Cur, "log_offer", NoNode, header.term, entry,
                    Len(disk_log) + 1, ~io))

CallApplyLog ==
  /\ up /\ NumCalls < MaxCalls
  /\ Len(executed) < MaxLog
  /\ \E entry \in RemoteEntries, idx \in 1..MaxLog :
       SetCall(raftApplyLog(Cur, entry, idx),
               Call(Cur, "applylog", NoNode, header.term, entry, idx, FALSE))

InitCallbacks ==
  /\ \E config \in {"init", "join"} : InitWith(config)
  /\ ThreadsIdle
  /\ running = TRUE
  /\ AuxIdle

NextCallbacks ==
  \/ CallPersistVote
  \/ CallPersistTerm
  \/ CallLogOffer
  \/ CallApplyLog

SpecCallbacks == InitCallbacks /\ [][NextCallbacks]_vars

(***************************************************************************)
(* The encoding of a command in the data of a Raft entry                   *)
(* (RaftRedisCommandSerialize, RaftRedisCommandDeserialize).  A string is  *)
(* a sequence of bytes and so is the buffer; a size_t takes WordSize       *)
(* bytes, the least significant first (the file refuses to build on a      *)
(* big-endian machine).                                                    *)
(***************************************************************************)
WordSize == 8       \* sizeof(size_t)
MaxArgc == 2        \* arguments of a command
MaxStrLen == 2      \* bytes of an argument
ByteVals == {0, 255}

Strings == UNION {[1..n -> ByteVals] : n \in 0..MaxStrLen}
Argvs == UNION {[1..n -> Strings] : n \in 0..MaxArgc}

RECURSIVE Shr(_, _)
Shr(n, k) == IF k = 0 THEN n ELSE Shr(n \div 256, k - 1)

\* *(size_t *)p = n: the bytes written.
PutWord(n) == [i \in 1..WordSize |-> Shr(n, i - 1) % 256]

\* *(size_t *)p, p being k bytes short of the end of the word that starts
\* at offset off of buf.
RECURSIVE GetWordFrom(_, _, _)
GetWordFrom(buf, off, k) ==
  IF k = WordSize THEN 0
  ELSE buf[off + k + 1] + 256 * GetWordFrom(buf, off, k + 1)

GetWord(buf, off) == GetWordFrom(buf, off, 0)

\* The first loop of RaftRedisCommandSerialize: sz += len.
RECURSIVE SumLen(_)
SumLen(argv) ==
  IF argv = <<>> THEN 0 ELSE Len(Head(argv)) + SumLen(Tail(argv))

\* The second loop: each argument's length, then its bytes.
RECURSIVE SerializeArgs(_)
SerializeArgs(argv) ==
  IF argv = <<>> THEN <<>>
  ELSE PutWord(Len(Head(argv))) \o Head(argv) \o SerializeArgs(Tail(argv))

\* strlen: the bytes of a string before its first zero byte.
RECURSIVE CStr(_)
CStr(str) ==
  IF str = <<>> \/ Head(str) = 0 THEN <<>>
  ELSE <<Head(str)>> \o CStr(Tail(str))

RECURSIVE SerializeCStrs(_)
SerializeCStrs(argv) ==
  IF argv = <<>> THEN <<>>
  ELSE PutWord(Len(CStr(Head(argv)))) \o CStr(Head(argv))
         \o SerializeCStrs(Tail(argv))

\* RaftRedisCommandSerialize taking each argument as a C string, which ends
\* at its first zero byte.
RaftRedisCommandSerialize_CStrings(source) ==
  [len |-> WordSize * (Len(source) + 1) + SumLen(source),
   buf |-> PutWord(Len(source)) \o SerializeCStrs(source)]

\* target->len is the size computed and allocated, target->buf what the
\* writes put there.
RaftRedisCommandSerialize(source) ==
  [len |-> WordSize * (Len(source) + 1) + SumLen(source),
   buf |-> PutWord(Len(source)) \o SerializeArgs(source)]

\* The loop of RaftRedisCommandDeserialize: n arguments are left, p is off
\* bytes into the buffer.
RECURSIVE DeserializeArgs(_, _, _)
TakeArg(buf, off, len, n) ==
  <<SubSeq(buf, off + WordSize + 1, off + WordSize + len)>>
    \o DeserializeArgs(buf, off + WordSize + len, n - 1)

DeserializeArgs(buf, off, n) ==
  IF n = 0 THEN <<>> ELSE TakeArg(buf, off, GetWord(buf, off), n)

RaftRedisCommandDeserialize(source) ==
  DeserializeArgs(source.buf, WordSize, GetWord(source.buf, 0))

\* The steps of one command through the encoding leave the node alone.
SetCmd(c) ==
  cmd' = c /\ UNCHANGED <<srvvars, thrvars, ncrash, nfail, link>>

Serialize ==
  /\ cmd.pc = "argv"
  /\ \E target \in {RaftRedisCommandSerialize(cmd.argv)} :
       SetCmd([cmd EXCEPT !.pc = "serialized", !.len = target.len,
                          !.buf = target.buf])

Deserialize ==
  /\ cmd.pc = "serialized"
  /\ SetCmd([cmd EXCEPT !.pc = "done",
                        !.out = RaftRedisCommandDeserialize(
                                  [len |-> cmd.len, buf |-> cmd.buf])])

\* A client has sent a command: any vector of strings.
InitSerialize ==
  /\ InitWith("init")
  /\ ThreadsIdle
  /\ running = FALSE
  /\ cmd \in {[NoCmd EXCEPT !.pc = "argv", !.argv = a] : a \in Argvs}
  /\ link = NoLink

NextSerialize == Serialize \/ Deserialize

SpecSerialize == InitSerialize /\ [][NextSerialize]_vars

(***************************************************************************)
(* The send callbacks (raftSendRequestVote, raftSendAppendEntries) and the *)
(* connections to the peers.  NodeConnect and the hiredis calls are not in *)
(* src/raft.c: a connect is noted and marks the node as connecting, a      *)
(* command is queued on the connection or refused (enq).                   *)
(***************************************************************************)
MaxSend == 3        \* invocations of the send callbacks

NODE_CONNECTED == "NODE_CONNECTED"
NODE_CONNECTING == "NODE_CONNECTING"

\* NodeConnect(node, rr)
NodeConnect(l, node) ==
  [l EXCEPT !.connects[node] = @ + 1,
            !.state[node] = @ \cup {NODE_CONNECTING}]

\* redisAsyncCommand / redisAsyncCommandArgv on node->rc: REDIS_OK and the
\* command is queued, or an error and it is not.
redisAsyncCommand(l, node, command, enq) ==
  IF enq
  THEN [ok |-> TRUE, l |-> [l EXCEPT !.sent = Append(@, <<node, command>>)]]
  ELSE [ok |-> FALSE, l |-> l]

\* raftSendRequestVote without its test of NODE_CONNECTED.
raftSendRequestVote_NoGate(l, node, msg, enq) ==
  Ret(redisAsyncCommand(l, node,
        <<"RAFT.REQUESTVOTE", Self, msg.term, msg.candidate_id,
          msg.last_log_idx, msg.last_log_term>>, enq).l, OK)

raftSendRequestVote(l, node, msg, enq) ==
  IF NODE_CONNECTED \notin l.state[node]
  THEN Ret(NodeConnect(l, node), OK)
  ELSE Ret(redisAsyncCommand(l, node,
             <<"RAFT.REQUESTVOTE", Self, msg.term, msg.candidate_id,
               msg.last_log_idx, msg.last_log_term>>, enq).l, OK)

\* The arguments after the header: per entry its "term:id:type" and its data.
EntryArgs(entries) ==
  [i \in 1..(2 * Len(entries)) |->
     IF i % 2 = 1 THEN <<entries[(i + 1) \div 2].type>>
     ELSE <<"data", (i \div 2)>>]

raftSendAppendEntries(l, node, msg, enq) ==
  IF NODE_CONNECTED \notin l.state[node]
  THEN Ret(NodeConnect(l, node), OK)
  ELSE Ret(redisAsyncCommand(l, node,
             <<"RAFT.APPENDENTRIES", Self,
               <<msg.term, msg.prev_log_idx, msg.prev_log_term,
                 msg.leader_commit>>, Len(msg.entries)>>
               \o EntryArgs(msg.entries), enq).l, OK)

\* What the library asks to send.
SendRVMsgs ==
  {[term |-> t, candidate_id |-> Self, last_log_idx |-> i,
    last_log_term |-> 0] : t \in Terms, i \in 0..1}

SendAEMsgs ==
  {[term |-> t, prev_log_idx |-> 0, prev_log_term |-> 0, leader_commit |-> 0,
    entries |-> e] :
     t \in Terms,
     e \in {<<>>, <<Entry(RAFT_LOGTYPE_NORMAL, NoNode, NoReq)>>}}

NumSends == link.last.n

\* The connections after a send callback, with the record of the call.
SetLink(before, r, cb, node, msg, enq) ==
  /\ link' = [r.s EXCEPT !.last =
                [cb |-> cb, node |-> node, msg |-> msg,
                 connected |-> (NODE_CONNECTED \in before.state[node]),
                 enq |-> enq, ret |-> r.e,
                 connects |-> before.connects[node],
                 sent |-> before.sent, n |-> before.last.n + 1]]
  /\ UNCHANGED <<srvvars, thrvars, ncrash, nfail, cmd>>

SendRequestVote ==
  /\ NumSends < MaxSend
  /\ \E node \in Peers, msg \in SendRVMsgs, enq \in BOOLEAN :
       SetLink(link, raftSendRequestVote(link, node, msg, enq),
               "send_requestvote", node, msg, enq)

SendAppendEntries ==
  /\ NumSends < MaxSend
  /\ \E node \in Peers, msg \in SendAEMsgs, enq \in BOOLEAN :
       SetLink(link, raftSendAppendEntries(link, node, msg, enq),
               "send_appendentries", node, msg, enq)

\* The connection to a peer is established.
PeerConnected ==
  \E node \in Peers :
    /\ NODE_CONNECTING \in link.state[node]
    /\ link' = [link EXCEPT !.state[node] = {NODE_CONNECTED}]
    /\ UNCHANGED <<srvvars, thrvars, ncrash, nfail, cmd>>

\* The connection to a peer is lost, or could not be established.
PeerDropped ==
  \E node \in Peers :
    /\ link.state[node] # {}
    /\ link' = [link EXCEPT !.state[node] = {}]
    /\ UNCHANGED <<srvvars, thrvars, ncrash, nfail, cmd>>

InitSend ==
  /\ InitWith("init")
  /\ ThreadsIdle
  /\ running = TRUE
  /\ AuxIdle

NextSend ==
  \/ SendRequestVote
  \/ SendAppendEntries
  \/ PeerConnected
  \/ PeerDropped

SpecSend == InitSend /\ [][NextSend]_vars

(***************************************************************************)
(* The peers: the leader's clients change the cluster (handleCfgChange),   *)
(* the library sends to the registered peers, and the peers' replies come  *)
(* back to the response handlers while the registry changes.  A command    *)
(* queued on a connection (link.sent) stays queued, with its callback and  *)
(* its Node, until its reply arrives: src/raft.c neither closes a          *)
(* connection nor frees a Node.  cbs holds the record of the last handler  *)
(* that ran and the context as it was before it.                           *)
(***************************************************************************)
REDIS_REPLY_ARRAY == "REDIS_REPLY_ARRAY"
REDIS_REPLY_INTEGER == "REDIS_REPLY_INTEGER"
REDIS_REPLY_STRING == "REDIS_REPLY_STRING"
REDIS_REPLY_ERROR == "REDIS_REPLY_ERROR"

\* A redisReply as the handlers look at it: NULL or not, its type and the
\* types of its elements.
RedisReply(type, element) == [null |-> FALSE, type |-> type, element |-> element]

NullReply == [null |-> TRUE, type |-> "none", element |-> <<>>]

MaxElements == 5    \* elements of an array reply

\* Arrays of integers of every length, and the arrays of 2 and of 4 elements
\* with a string in one place.
ReplyElements ==
  {[i \in 1..n |-> REDIS_REPLY_INTEGER] : n \in 1..MaxElements}
  \cup
  {[i \in 1..nk[1] |->
      IF i = nk[2] THEN REDIS_REPLY_STRING ELSE REDIS_REPLY_INTEGER] :
     nk \in {p \in {2, 4} \X (1..4) : p[2] <= p[1]}}

Replies ==
  {NullReply, RedisReply(REDIS_REPLY_ERROR, <<>>),
   RedisReply(REDIS_REPLY_INTEGER, <<>>)}
  \cup {RedisReply(REDIS_REPLY_ARRAY, e) : e \in ReplyElements}

\* The tests requestvote_response_handler makes on the reply before it
\* reads it.
RequestVoteReplyShape(reply) ==
  IF reply.null THEN "null"
  ELSE IF reply.type = REDIS_REPLY_ERROR THEN "error"
  ELSE IF reply.type # REDIS_REPLY_ARRAY \/ Len(reply.element) # 2
          \/ reply.element[1] # REDIS_REPLY_INTEGER
          \/ reply.element[2] # REDIS_REPLY_INTEGER
  THEN "badshape"
  ELSE "ok"

\* The tests appendentries_response_handler makes on the reply.
AppendEntriesReplyShape(reply) ==
  IF reply.null THEN "null"
  ELSE IF reply.type = REDIS_REPLY_ERROR THEN "error"
  ELSE IF reply.type # REDIS_REPLY_ARRAY \/ Len(reply.element) # 4
          \/ reply.element[1] # REDIS_REPLY_INTEGER
          \/ reply.element[2] # REDIS_REPLY_INTEGER
          \/ reply.element[3] # REDIS_REPLY_INTEGER
          \/ reply.element[4] # REDIS_REPLY_INTEGER
  THEN "badshape"
  ELSE "ok"

\* The record of a handler that ran on the context before: cb is the
\* handler, node the peer (or the id of the cfg-change request), kind the
\* shape the handler found in the reply (or the type of the request).
PeerCall(before, cb, node, reply, kind) ==
  [cb |-> cb, node |-> node, reply |-> reply, kind |-> kind, ret |-> OK,
   n |-> NumCalls + 1,
   pre |-> [state |-> before.state, current_leader |-> before.current_leader,
            current_term |-> before.current_term,
            voted_for |-> before.voted_for, log |-> before.log,
            commit_idx |-> before.commit_idx,
            last_applied_idx |-> before.last_applied_idx,
            nodes |-> before.nodes, header |-> before.header,
            disk_header |-> before.disk_header, disk_log |-> before.disk_log,
            executed |-> before.executed]]

\* The context and the connections a handler leaves; a failed assert leaves
\* the context as it was when the process died.
SetPeer(t, call, l) ==
  /\ SetVars([t EXCEPT !.cbs =
                <<[call EXCEPT !.ret = IF t.up THEN OK ELSE ABORT]>>])
  /\ link' = l
  /\ UNCHANGED <<thrvars, ncrash, nfail, cmd>>

\* A client's cfg-change request is submitted and handled.
PeerCfgChange ==
  /\ up
  /\ NumReqs(Cur) < MaxReq
  /\ \E type \in {RR_CFGCHANGE_ADDNODE, RR_CFGCHANGE_REMOVENODE},
        id \in NodeIds :
       LET r == NumReqs(Cur) + 1
           f == raft_req_fetch(
                  QueueInsert([Cur EXCEPT !.reqs[r] = RaftReqInit(type)], r))
       IN SetPeer(HandleOne(f.s, f.r,
                            [id |-> id, ae |-> NoAE, rv |-> NoRV,
                             io1 |-> TRUE, io2 |-> TRUE]),
                  PeerCall(Cur, "cfgchange", id, NullReply, type), link)

\* The library sends to a peer of its registry (the peer's Node is the
\* udata of the raft node).
PeerSendRequestVote ==
  /\ up
  /\ NumSends < MaxSend
  /\ \E node \in Peers, msg \in SendRVMsgs :
       /\ nodes[node].udata
       /\ msg.term = current_term /\ msg.last_log_idx = 0
       /\ SetLink(link, raftSendRequestVote(link, node, msg, TRUE),
                  "send_requestvote", node, msg, TRUE)

PeerSendAppendEntries ==
  /\ up
  /\ NumSends < MaxSend
  /\ \E node \in Peers, msg \in SendAEMsgs :
       /\ nodes[node].udata
       /\ msg.term = current_term /\ msg.entries = <<>>
       /\ SetLink(link, raftSendAppendEntries(link, node, msg, TRUE),
                  "send_appendentries", node, msg, TRUE)

\* link without the i-th of its queued commands.
Replied(l, i) ==
  [l EXCEPT !.sent = SubSeq(@, 1, i - 1) \o SubSeq(@, i + 1, Len(@))]

\* The reply to a queued RAFT.REQUESTVOTE arrives (NULL when the connection
\* is gone), and hiredis calls the command's callback with the command's
\* Node.
PeerRequestVoteReply ==
  /\ up
  /\ \E i \in DOMAIN link.sent, reply \in Replies :
       LET node == link.sent[i][1]
           kind == RequestVoteReplyShape(reply)
       IN /\ link.sent[i][2][1] = "RAFT.REQUESTVOTE"
          /\ ~reply.null => NODE_CONNECTED \in link.state[node]
          /\ \E t \in Terms, granted \in BOOLEAN :
               /\ kind # "ok" => (t = 0 /\ ~granted)
               /\ SetPeer(requestvote_response_handler(Cur, node, kind,
                            [term |-> t, granted |-> granted,
                             majority |-> granted], TRUE),
                          PeerCall(Cur, "requestvote_response", node, reply,
                                   kind),
                          Replied(link, i))

\* The reply to a queued RAFT.APPENDENTRIES arrives.
PeerAppendEntriesReply ==
  /\ up
  /\ \E i \in DOMAIN link.sent, reply \in Replies :
       LET node == link.sent[i][1]
           kind == AppendEntriesReplyShape(reply)
       IN /\ link.sent[i][2][1] = "RAFT.APPENDENTRIES"
          /\ ~reply.null => NODE_CONNECTED \in link.state[node]
          /\ \E t \in Terms, success \in BOOLEAN, suff \in BOOLEAN :
               /\ kind # "ok" => (t = 0 /\ ~success)
               /\ ~success => ~suff
               /\ SetPeer(appendentries_response_handler(Cur, node, kind,
                            [term |-> t, success |-> success,
                             adv |-> IF success THEN Len(log) ELSE 0,
                             suff |-> suff], TRUE, TRUE),
                          PeerCall(Cur, "appendentries_response", node, reply,
                                   kind),
                          Replied(link, i))

InitPeers ==
  /\ InitWith("init")
  /\ ThreadsIdle
  /\ running = TRUE
  /\ AuxIdle

NextPeers ==
  \/ PeerCfgChange
  \/ PeerSendRequestVote
  \/ PeerSendAppendEntries
  \/ PeerConnected
  \/ PeerDropped
  \/ PeerRequestVoteReply
  \/ PeerAppendEntriesReply

SpecPeers == InitPeers /\ [][NextPeers]_vars

(***************************************************************************)
(* The properties.                                                         *)
(***************************************************************************)
ReqIds == 1..MaxReq

Range(seq) == {seq[i] : i \in DOMAIN seq}

\* The indices of the in-memory log whose entry carries request r.
EntryOf(r) == {i \in 1..Len(log) : log[i].req = r}

\* Request r is a client command that has been dispatched to its handler.
Dispatched(r) == reqs[r].type = RR_REDISCOMMAND /\ reqs[r].ldr # <<>>

\* C1: a client command dispatched while the Raft library reports no leader
\* is answered -NOLEADER; one dispatched while the leader is another node is
\* answered LEADERIS with that node's address; in both cases the client is
\* unblocked and no entry is submitted.  RR_PENDING_COMMIT is set, and an
\* entry carries the request, only if the leader was the local node; that
\* entry is a NORMAL entry, and until it is applied the request has no reply
\* and its client stays blocked.
C1_RedisCommandByLeader ==
  \A r \in ReqIds :
    Dispatched(r) =>
      /\ reqs[r].ldr = <<NoNode>> =>
           /\ reqs[r].reply = << <<"-NOLEADER">> >>
           /\ reqs[r].unblocked = 1 /\ ~reqs[r].pending /\ EntryOf(r) = {}
      /\ reqs[r].ldr \notin {<<NoNode>>, <<Self>>} =>
           /\ reqs[r].reply = << <<"LEADERIS", AddrOf(reqs[r].ldr[1])>> >>
           /\ reqs[r].unblocked = 1 /\ ~reqs[r].pending /\ EntryOf(r) = {}
      /\ reqs[r].pending => reqs[r].ldr = <<Self>>
      /\ \A i \in EntryOf(r) :
           /\ log[i].type = RAFT_LOGTYPE_NORMAL
           /\ reqs[r].pending
           /\ i > last_applied_idx =>
                (reqs[r].reply = <<>> /\ reqs[r].unblocked = 0)

\* A command was redirected to the remote leader.
C1_Witness ==
  \E r \in ReqIds :
    /\ Dispatched(r)
    /\ reqs[r].ldr \notin {<<NoNode>>, <<Self>>}
    /\ reqs[r].reply = << <<"LEADERIS", AddrOf(reqs[r].ldr[1])>> >>

\* C2: a step through which the node is not the leader emits, to a client
\* command, no reply other than -NOLEADER or a LEADERIS redirect, also when
\* the command was accepted while the node was leader.
C2_NonLeaderNeverRepliesResult ==
  [][\A r \in ReqIds :
       ( /\ state # "leader" /\ state' # "leader"
         /\ current_leader # Self /\ current_leader' # Self
         /\ reqs[r].type = RR_REDISCOMMAND
         /\ reqs'[r].type = RR_REDISCOMMAND
         /\ Len(reqs'[r].reply) > Len(reqs[r].reply) )
       => reqs'[r].reply[Len(reqs'[r].reply)][1] \in {"-NOLEADER", "LEADERIS"}
    ]_vars

\* C3: the interpreter's reply to a client command is emitted only once the
\* applylog callback has run for the command's entry: the entry is then
\* applied, committed and executed, and an entry not yet applied has no reply.
C3_ReplyOnlyAfterApply ==
  \A r \in ReqIds :
    /\ <<"RESULT">> \in Range(reqs[r].reply) =>
         \E i \in EntryOf(r) :
           /\ i <= last_applied_idx
           /\ i <= commit_idx
           /\ i \in Range(executed)
    /\ \A i \in EntryOf(r) : i > last_applied_idx => reqs[r].reply = <<>>

\* An accepted command has been applied and answered.
C3_Witness ==
  \E r \in ReqIds :
    /\ reqs[r].pending
    /\ reqs[r].reply = << <<"RESULT">> >>
    /\ reqs[r].unblocked = 1

\* C4: under every interleaving of the threads, the requests dispatched so
\* far, the request the consensus thread holds and the requests in the queue
\* are, in this order, the requests in the order of their insertion; no
\* request is inserted, hence dispatched, twice.
C4_FifoDispatch ==
  /\ dispatched \o (IF wreq # NoReq THEN <<wreq>> ELSE <<>>) \o rqueue
       = inserted
  /\ \A i, j \in DOMAIN inserted : i # j => inserted[i] # inserted[j]

\* Two threads have submitted concurrently, the request created second was
\* inserted first, and both have been dispatched.
C4_Witness == dispatched = <<2, 1>>

\* C5: every NORMAL entry the node has applied has been executed on the
\* interpreter exactly once.
C5_ExecutedExactlyOnce ==
  \A i \in 1..Len(log) :
    (log[i].type = RAFT_LOGTYPE_NORMAL /\ i <= last_applied_idx)
      => Cardinality({k \in DOMAIN executed : executed[k] = i}) = 1

\* The indices, in order, of the NORMAL entries of the file dlog up to the
\* commit index c.
CommittedCommands(dlog, c) ==
  LET IsCommand(i) == dlog[i].type = RAFT_LOGTYPE_NORMAL
  IN SelectSeq([i \in 1..Min(c, Len(dlog)) |-> i], IsCommand)

\* C6: when the recover path returns, the interpreter has executed the
\* committed commands of the log file, in log order, and nothing else.
C6_RecoverExecutesCommitted ==
  [][ncrash' > ncrash
       => executed' = CommittedCommands(disk_log, disk_header.commit_idx)]_vars

\* C7: the term and the commit index the node reads back from the header
\* after a restart are not lower than the term it had adopted (persist_term
\* had returned 0 for it) and the commit index applylog had recorded.
C7_HeaderMonotonic ==
  [][ncrash' > ncrash
       => /\ header'.term >= current_term
          /\ header'.commit_idx >= header.commit_idx]_vars

C9_StopsAfterShutdown ==
  [][(shutdown_seen /\ up /\ up' /\ ncrash' = ncrash)
       => /\ dispatched' = dispatched
          /\ last_applied_idx' = last_applied_idx]_vars

\* C10: a client request answered ERROR has that one reply, has been
\* unblocked once and freed once, is not RR_PENDING_COMMIT and is carried by
\* no entry; and a client command dispatched under the local leader whose
\* entry was not accepted is answered ERROR.
C10_RejectedRepliesError ==
  \A r \in ReqIds :
    /\ ( /\ reqs[r].type \in {RR_CFGCHANGE_ADDNODE, RR_CFGCHANGE_REMOVENODE,
                              RR_REDISCOMMAND}
         /\ <<"ERROR">> \in Range(reqs[r].reply) )
       => /\ reqs[r].reply = << <<"ERROR">> >>
          /\ reqs[r].unblocked = 1
          /\ reqs[r].freed = 1
          /\ ~reqs[r].pending
          /\ ~reqs[r].ctx
          /\ EntryOf(r) = {}
    /\ (Dispatched(r) /\ reqs[r].ldr = <<Self>> /\ ~reqs[r].pending)
       => reqs[r].reply = << <<"ERROR">> >>

\* A client command was rejected by raft_recv_entry on the leader.
C10_Witness ==
  \E r \in ReqIds :
    /\ Dispatched(r)
    /\ reqs[r].ldr = <<Self>>
    /\ reqs[r].reply = << <<"ERROR">> >>
    /\ reqs[r].freed = 1

\* C11: the buffer RaftRedisCommandSerialize produces is as long as it says:
\* (argc + 1) words plus the bytes of the strings; and
\* RaftRedisCommandDeserialize builds from it the same strings in the same
\* order, whatever the vector (empty, with empty strings, with zero bytes).
C11_SerializeRoundTrip ==
  /\ cmd.pc \in {"serialized", "done"}
       => /\ cmd.len = (Len(cmd.argv) + 1) * WordSize + SumLen(cmd.argv)
          /\ Len(cmd.buf) = cmd.len
  /\ cmd.pc = "done"
       => /\ Len(cmd.out) = Len(cmd.argv)
          /\ cmd.out = cmd.argv

\* A command with an empty string and a string that holds a zero byte has
\* gone through the encoding and back.
C11_Witness ==
  /\ cmd.pc = "done"
  /\ cmd.argv = << <<>>, <<0, 255>> >>
  /\ cmd.out = cmd.argv

\* C12: a request is freed at most once; a request whose reply has been
\* emitted has been freed, whether its handler replied or its entry was
\* applied; and a request that waits for its entry has not been freed.
C12_FreedExactlyOnce ==
  \A r \in ReqIds :
    /\ reqs[r].freed <= 1
    /\ reqs[r].reply # <<>> => reqs[r].freed = 1
    /\ (reqs[r].pending /\ reqs[r].reply = <<>>) => reqs[r].freed = 0

\* C13: under fair scheduling of the threads, every request inserted into
\* the queue is eventually dispatched to its handler, with no need of a
\* later submission: it is dispatched while the clients can still submit
\* (the model's requests are not used up).
C13_EventuallyDispatched ==
  \A r \in ReqIds :
    (r \in Range(inserted))
      ~> (r \in Range(dispatched) \/ NumReqs(Cur) = MaxReq)

\* C14: the client of a request is unblocked at most once.  A request whose
\* handler has returned without RR_PENDING_COMMIT has been unblocked once;
\* a request with RR_PENDING_COMMIT is unblocked once its entry has been
\* applied and executed, with the interpreter's reply, and is blocked as long
\* as its entry is not applied.
C14_UnblockedAtMostOnce ==
  \A r \in ReqIds :
    /\ reqs[r].unblocked <= 1
    /\ (r \in Range(dispatched) /\ ~reqs[r].pending) => reqs[r].unblocked = 1
    /\ reqs[r].pending =>
         /\ reqs[r].unblocked = 1 <=> reqs[r].reply = << <<"RESULT">> >>
         /\ reqs[r].unblocked = 1 =>
              \E i \in EntryOf(r) : i <= last_applied_idx /\ i \in Range(executed)
         /\ \A i \in EntryOf(r) :
              i > last_applied_idx => reqs[r].unblocked = 0

\* A vote request has been answered by its handler, and a client command has
\* been answered when its entry was applied; each client was unblocked once.
C14_Witness ==
  \E r, q \in ReqIds :
    /\ reqs[r].type = RR_REQUESTVOTE /\ reqs[r].unblocked = 1
    /\ reqs[q].pending /\ reqs[q].unblocked = 1

\* The invocation cbs records is one of callback cb.
LastCall(cb) == cbs # <<>> /\ cbs[1].cb = cb

\* C15: as long as no write has failed, when persist_vote(v) has returned 0
\* the header on disk holds the vote v, and when persist_term(t, v) has
\* returned 0 it holds the term t and the vote v that came with it.
C15_PersistedVoteAndTerm ==
  nfail = 0 =>
    /\ (LastCall("persist_vote") /\ cbs[1].ret = OK)
         => disk_header.vote = cbs[1].vote
    /\ (LastCall("persist_term") /\ cbs[1].ret = OK)
         => /\ disk_header.term = cbs[1].term
            /\ disk_header.vote = cbs[1].vote

\* C16: when applylog has been called with an index greater than the
\* header's commit_idx, the header on disk holds that index.
C16_CommitIdxWritten ==
  (LastCall("applylog") /\ cbs[1].idx > cbs[1].pre.header.commit_idx)
    => disk_header.commit_idx = cbs[1].idx

\* C17: when the recover path has completed, the Raft instance's vote is the
\* vote of the log header and its term is the term of the header.
C17_RecoverRestoresVoteAndTerm ==
  [][ncrash' > ncrash
       => /\ voted_for' = disk_header.vote
          /\ current_term' = disk_header.term]_vars

\* C18: applylog leaves the node registry as it was and the header's
\* commit_idx at the maximum of its previous value and the applied index.
\* For a REMOVE_NODE entry of the local node it returns RAFT_ERR_SHUTDOWN;
\* for a REMOVE_NODE of another node, an ADD_NODE and an ADD_NONVOTING_NODE
\* it returns 0; in neither case is the interpreter called.  For a NORMAL
\* entry it calls the interpreter once and returns 0.
C18_ApplyLogDispatch ==
  LastCall("applylog") =>
    /\ nodes = cbs[1].pre.nodes
    /\ header.commit_idx = Max(cbs[1].pre.header.commit_idx, cbs[1].idx)
    /\ header.term = cbs[1].pre.header.term
    /\ header.vote = cbs[1].pre.header.vote
    /\ (cbs[1].entry.type = RAFT_LOGTYPE_REMOVE_NODE
          /\ cbs[1].entry.node = Self)
         => (cbs[1].ret = RAFT_ERR_SHUTDOWN
               /\ executed = cbs[1].pre.executed)
    /\ (raft_entry_is_cfg_change(cbs[1].entry)
          /\ ~(cbs[1].entry.type = RAFT_LOGTYPE_REMOVE_NODE
                 /\ cbs[1].entry.node = Self))
         => (cbs[1].ret = OK /\ executed = cbs[1].pre.executed)
    /\ cbs[1].entry.type = RAFT_LOGTYPE_NORMAL
         => (cbs[1].ret = OK
               /\ executed = Append(cbs[1].pre.executed, cbs[1].idx))

\* The removal of the local node has been applied at an index below the
\* header's commit_idx.
C18_Witness ==
  /\ LastCall("applylog")
  /\ cbs[1].entry = Entry(RAFT_LOGTYPE_REMOVE_NODE, Self, NoReq)
  /\ cbs[1].ret = RAFT_ERR_SHUTDOWN
  /\ cbs[1].idx < cbs[1].pre.header.commit_idx
  /\ header.commit_idx = cbs[1].pre.header.commit_idx

\* C19: a log_offer whose append succeeds returns 0 for an ADD_NODE entry,
\* also when the library refuses to add the node.  After a log_offer that
\* returned 0: the id of a REMOVE_NODE entry is not registered; the id of
\* an ADD_NODE entry is registered as a voting node and the id of an
\* ADD_NONVOTING_NODE entry, if it was not registered, as a non-voting
\* node; a NORMAL entry has left the registry as it was.
C19_LogOfferRegistry ==
  LastCall("log_offer") =>
    /\ (cbs[1].entry.type = RAFT_LOGTYPE_ADD_NODE /\ ~cbs[1].iofail)
         => cbs[1].ret = OK
    /\ (cbs[1].entry.type = RAFT_LOGTYPE_REMOVE_NODE /\ cbs[1].ret = OK)
         => ~raft_get_node(Cur, cbs[1].entry.node)
    /\ (cbs[1].entry.type = RAFT_LOGTYPE_ADD_NODE /\ cbs[1].ret = OK)
         => raft_node_is_voting(Cur, cbs[1].entry.node)
    /\ (cbs[1].entry.type = RAFT_LOGTYPE_ADD_NONVOTING_NODE
          /\ cbs[1].ret = OK
          /\ cbs[1].pre.nodes[cbs[1].entry.node].st = "none")
         => nodes[cbs[1].entry.node].st = "nonvoting"
    /\ cbs[1].entry.type = RAFT_LOGTYPE_NORMAL => nodes = cbs[1].pre.nodes

\* C20: a send callback returns 0 in every case.  Called for a peer whose
\* state does not include NODE_CONNECTED, it has initiated one connect to
\* that peer and queued nothing; called for a connected peer, it has
\* initiated no connect and has queued its command for that peer, or
\* nothing when the command was refused.
C20_ConnectionGate ==
  link.last.cb \in {"send_requestvote", "send_appendentries"} =>
    /\ link.last.ret = OK
    /\ ~link.last.connected =>
         /\ link.connects[link.last.node] = link.last.connects + 1
         /\ link.sent = link.last.sent
    /\ link.last.connected =>
         /\ link.connects[link.last.node] = link.last.connects
         /\ link.last.enq =>
              /\ Len(link.sent) = Len(link.last.sent) + 1
              /\ SubSeq(link.sent, 1, Len(link.last.sent)) = link.last.sent
              /\ link.sent[Len(link.sent)][1] = link.last.node
         /\ ~link.last.enq => link.sent = link.last.sent

\* Both cases have happened: a vote request to a peer that was not connected
\* started a connect, and an append-entries request to the connected peer
\* was refused by the connection.
C20_Witness ==
  /\ link.last.cb = "send_appendentries"
  /\ link.last.connected /\ ~link.last.enq
  /\ link.last.ret = OK
  /\ link.connects[link.last.node] = 1
  /\ link.sent = <<>>

\* The handler cb was the last to run in the peers' specification.
PeerRan(cb) == cbs # <<>> /\ cbs[1].cb = cb

\* The Raft state, the file and the interpreter are as they were before the
\* last handler.
SameAsBefore ==
  /\ state = cbs[1].pre.state
  /\ current_leader = cbs[1].pre.current_leader
  /\ current_term = cbs[1].pre.current_term
  /\ voted_for = cbs[1].pre.voted_for
  /\ log = cbs[1].pre.log
  /\ commit_idx = cbs[1].pre.commit_idx
  /\ last_applied_idx = cbs[1].pre.last_applied_idx
  /\ nodes = cbs[1].pre.nodes
  /\ header = cbs[1].pre.header
  /\ disk_header = cbs[1].pre.disk_header
  /\ disk_log = cbs[1].pre.disk_log
  /\ executed = cbs[1].pre.executed

\* C21: a reply that is absent, an error, or not an array of exactly 2
\* integers (vote) or exactly 4 integers (append entries) is discarded by its
\* response handler: the handler returns normally, and the Raft state, the
\* last applied index, the file and the interpreter are as they were (nothing
\* was delivered to the library and no apply-all ran).
C21_BadReplyDiscarded ==
  (PeerRan("requestvote_response") \/ PeerRan("appendentries_response"))
    /\ cbs[1].kind # "ok"
    => /\ cbs[1].ret = OK
       /\ up
       /\ SameAsBefore

\* C22: whenever a response handler processes a well-formed reply, the peer
\* that sent it is registered in the Raft instance (raft_get_node finds it
\* and the handler's assertion holds), however the sends, the cfg-change
\* offers and the replies interleave.
C22_ReplyFromRegisteredPeer ==
  (PeerRan("requestvote_response") \/ PeerRan("appendentries_response"))
    /\ cbs[1].kind = "ok"
    => /\ raft_get_node(cbs[1].pre, cbs[1].node)
       /\ cbs[1].ret = OK

\* C23: a REMOVE_NODE entry that a client's cfg-change request brought to
\* log_offer (the entry is in the file) names a peer that was registered in
\* the Raft instance: the assertion of the REMOVE_NODE branch holds and the
\* handler returns.
C23_RemoveNodeRegistered ==
  PeerRan("cfgchange") /\ cbs[1].kind = RR_CFGCHANGE_REMOVENODE
    /\ Len(disk_log) > Len(cbs[1].pre.disk_log)
    => /\ raft_get_node(cbs[1].pre, cbs[1].node)
       /\ cbs[1].ret = OK

\* The entries of the in-memory log as the file would hold them (user_data
\* is not written).
LogOnDisk(l) == [i \in 1..Len(l) |-> [l[i] EXCEPT !.req = NoReq]]

\* C24: while the node runs, the log file holds exactly the entries of the
\* Raft instance's in-memory log, in the same order, from bootstrap on.
C24_DiskLogIsMemoryLog ==
  up => disk_log = LogOnDisk(log)

=============================================================================
